---- MODULE Spec2Model ----
(***************************************************************************)
(* Model of working_with_strax.py: a linear script (an exported notebook)  *)
(* that installs strax/straxen, imports them, builds the XENON1T context,  *)
(* looks up data types and runs, loads one run as a dataframe and plots it.*)
(* Every statement of the script is one action.  Calls into straxen,       *)
(* pandas and matplotlib are external: whether they return or raise, and   *)
(* what data they return, is chosen nondeterministically.  What the script *)
(* itself fixes is modelled exactly: the order of the statements, the      *)
(* names they bind, the literal arguments they pass, and that nothing      *)
(* catches an exception.                                                   *)
(***************************************************************************)
EXTENDS Integers, Sequences, FiniteSets, TLC

VARIABLES
    pc,         \* label of the next statement to run, "done" after the last
    error,      \* the uncaught exception that ended the session, if any
    ipython,    \* whether get_ipython is defined (the script runs under IPython)
    installed,  \* packages installed in the environment: [site, user]
    modules,    \* names bound by the import statements
    st,         \* the name st (line 64)
    run_id,     \* the name run_id (line 110)
    df,         \* the name df (line 118)
    figs,       \* pyplot's axes, in creation order
    gca,        \* pyplot's current axes: an index into figs, 0 when there is none
    out,        \* what the session displayed, in order
    log         \* history: every statement attempted, with its outcome

vars == <<pc, error, ipython, installed, modules, st, run_id, df, figs, gca, out, log>>

----------------------------------------------------------------------------
(* Bounds *)

\* Largest number of rows (events) an external call may return.
MaxRows == 2

----------------------------------------------------------------------------
(* The script's statements and literals *)

Steps ==
    << "pip1", "pip2", "import_straxen", "import_strax", "import_pandas",
       "context", "search_field", "data_info_ca", "data_info_ei",
       "select_runs", "run_id", "get_df", "print_df", "import_plt",
       "scatter", "xscale", "xlim", "yscale", "event_scatter" >>

StepSet == {Steps[i] : i \in 1..Len(Steps)}

IndexOf(s) == CHOOSE i \in 1..Len(Steps) : Steps[i] = s

\* Mutant: the cell that creates the context is skipped.
NextPcSkipsContext(p) ==
    IF p = "import_pandas" THEN "search_field"
    ELSE IF IndexOf(p) = Len(Steps) THEN "done" ELSE Steps[IndexOf(p) + 1]

\* The statement that follows p in the file.
NextPc(p) == IF IndexOf(p) = Len(Steps) THEN "done" ELSE Steps[IndexOf(p) + 1]

Packages == {"strax", "straxen", "pandas", "matplotlib"}

\* Mutant: the requirement list names strax only.
PipTargetsStraxOnly == {"strax"}

\* The packages named on the pip command lines.
PipTargets == {"strax", "straxen"}

ContextName == "xenon1t_dali"
RunLiteral == "180215_1029"
DataTypeLiteral == "event_info"
ScatterX == "cs1"
ScatterY == "cs2"
XlimLeft == 1

Unbound == "<unbound>"
NoTable == [bound |-> FALSE, run |-> "", data_type |-> "", rows |-> 0]
NoError == [raised |-> FALSE, step |-> "", exc |-> ""]

\* An axis limit argument or setting: None (not set) or a number.
None == [set |-> FALSE, val |-> 0]
Some(v) == [set |-> TRUE, val |-> v]

\* Exceptions an external call may raise.
LibraryErrors == {"KeyError", "DataNotAvailable"}

----------------------------------------------------------------------------
(* Initial state: a fresh session, in any environment *)

Init ==
    /\ pc = "pip1"
    /\ error = NoError
    /\ ipython \in BOOLEAN
    /\ installed \in [site : SUBSET Packages, user : SUBSET Packages]
    /\ modules = {}
    /\ st = Unbound
    /\ run_id = Unbound
    /\ df = NoTable
    /\ figs = <<>>
    /\ gca = 0
    /\ out = <<>>
    /\ log = <<>>

----------------------------------------------------------------------------
(* Outcomes of one statement *)

Entry(outcome, exc, run) ==
    [step |-> pc, outcome |-> outcome, exc |-> exc, run |-> run]

\* Mutant: the exception is caught and the next statement runs.
RaiseSwallowed(exc, run) ==
    /\ error' = error
    /\ pc' = NextPc(pc)
    /\ log' = Append(log, Entry("raised", exc, run))
    /\ UNCHANGED <<ipython, installed, modules, st, run_id, df, figs, gca, out>>

\* The statement raises: nothing catches it, so it ends the session here
\* and binds nothing.
Raise(exc, run) ==
    /\ error' = [raised |-> TRUE, step |-> pc, exc |-> exc]
    /\ pc' = pc
    /\ log' = Append(log, Entry("raised", exc, run))
    /\ UNCHANGED <<ipython, installed, modules, st, run_id, df, figs, gca, out>>

\* The statement returns: control moves to the next statement.
Return(outcome, run) ==
    /\ error' = error
    /\ pc' = NextPc(pc)
    /\ log' = Append(log, Entry(outcome, "", run))

At(step) == pc = step /\ ~error.raised

----------------------------------------------------------------------------
(* Lines 43-44: the two pip install commands *)

\* get_ipython().system('pip install -I strax==0.12.2 straxen==0.11.0 -q ...')
\* A failing pip only returns a non-zero exit status: system() does not raise.
\* A run that succeeds has installed the named packages (and any dependencies);
\* one that fails may have installed some packages before it stopped.
PipInstall(where) ==
    IF ~ipython
    THEN Raise("NameError", "")
    ELSE \E ok \in BOOLEAN, added \in SUBSET Packages :
            /\ ok => PipTargets \subseteq added
            /\ installed' = [installed EXCEPT ![where] = @ \cup added]
            /\ Return(IF ok THEN "ok" ELSE "exit_nonzero", "")
            /\ UNCHANGED <<ipython, modules, st, run_id, df, figs, gca, out>>

Pip1 == At("pip1") /\ PipInstall("site")

Pip2 == At("pip2") /\ PipInstall("user")

----------------------------------------------------------------------------
(* Lines 54-56, 136: the imports *)

Importable == installed.site \cup installed.user

\* import <pkg> [as <name>]
Import(pkg, name) ==
    IF pkg \notin Importable
    THEN Raise("ModuleNotFoundError", "")
    ELSE \E ok \in BOOLEAN :
            IF ok
            THEN /\ modules' = modules \cup {name}
                 /\ Return("ok", "")
                 /\ UNCHANGED <<ipython, installed, st, run_id, df, figs, gca, out>>
            ELSE Raise("ImportError", "")

ImportStraxen == At("import_straxen") /\ Import("straxen", "straxen")

ImportStrax == At("import_strax") /\ Import("strax", "strax")

ImportPandas == At("import_pandas") /\ Import("pandas", "pd")

ImportPlt == At("import_plt") /\ Import("matplotlib", "plt")

----------------------------------------------------------------------------
(* Line 64: st = straxen.contexts.xenon1t_dali() *)

Context ==
    /\ At("context")
    /\ IF "straxen" \notin modules
       THEN Raise("NameError", "")
       ELSE \E ok \in BOOLEAN, e \in LibraryErrors :
               IF ok
               THEN /\ st' = ContextName
                    /\ Return("ok", "")
                    /\ UNCHANGED <<ipython, installed, modules, run_id, df, figs, gca, out>>
               ELSE Raise(e, "")

----------------------------------------------------------------------------
(* Lines 80-102: the discovery calls.  Each is an expression statement: *)
(* its value is displayed and bound to no name.                         *)

\* st.<method>(...) whose result is only displayed.
Display(what) ==
    IF st = Unbound
    THEN Raise("NameError", "")
    ELSE \E ok \in BOOLEAN, e \in LibraryErrors :
            IF ok
            THEN /\ out' = Append(out, what)
                 /\ Return("ok", "")
                 /\ UNCHANGED <<ipython, installed, modules, st, run_id, df, figs, gca>>
            ELSE Raise(e, "")

\* st.search_field('cs1')
SearchField == At("search_field") /\ Display("search_field:cs1")

\* st.data_info('corrected_areas')
DataInfoCA == At("data_info_ca") /\ Display("data_info:corrected_areas")

\* st.data_info('event_info')
DataInfoEI == At("data_info_ei") /\ Display("data_info:event_info")

\* Mutant: the result of select_runs is assigned to st.
SelectRunsRebinds ==
    /\ At("select_runs")
    /\ IF st = Unbound
       THEN Raise("NameError", "")
       ELSE \E ok \in BOOLEAN, e \in LibraryErrors :
               IF ok
               THEN /\ st' = "runs"
                    /\ out' = Append(out, "select_runs")
                    /\ Return("ok", "")
                    /\ UNCHANGED <<ipython, installed, modules, run_id, df, figs, gca>>
               ELSE Raise(e, "")

\* st.select_runs()
SelectRuns == At("select_runs") /\ Display("select_runs")

----------------------------------------------------------------------------
(* Lines 110-126: choosing the run and loading it *)

\* run_id = '180215_1029'
RunId ==
    /\ At("run_id")
    /\ run_id' = RunLiteral
    /\ Return("ok", "")
    /\ UNCHANGED <<ipython, installed, modules, st, df, figs, gca, out>>

\* df = st.get_df(run_id, 'event_info')
\* The table is the library's: only the arguments it was asked for and its
\* number of rows are recorded.
GetDf ==
    /\ At("get_df")
    /\ IF st = Unbound \/ run_id = Unbound
       THEN Raise("NameError", "")
       ELSE \E ok \in BOOLEAN, e \in LibraryErrors, n \in 0..MaxRows :
               IF ok
               THEN /\ df' = [bound |-> TRUE, run |-> run_id,
                              data_type |-> DataTypeLiteral, rows |-> n]
                    /\ Return("ok", run_id)
                    /\ UNCHANGED <<ipython, installed, modules, st, run_id, figs, gca, out>>
               ELSE Raise(e, run_id)

\* print(df)
PrintDf ==
    /\ At("print_df")
    /\ IF ~df.bound
       THEN Raise("NameError", "")
       ELSE /\ out' = Append(out, "df")
            /\ Return("ok", "")
            /\ UNCHANGED <<ipython, installed, modules, st, run_id, df, figs, gca>>

----------------------------------------------------------------------------
(* Lines 138-141: the scatter plot and the pyplot calls that follow it *)

PlotData(call, run, data_type, rows) ==
    [call |-> call, run |-> run, data_type |-> data_type, rows |-> rows,
     x |-> ScatterX, y |-> ScatterY]

\* Axes as pyplot creates them: linear scales, limits not set.
NewAxes(data) ==
    [data |-> data, xscale |-> "linear", yscale |-> "linear",
     xleft |-> None, xright |-> None]

EmptyAxes == NewAxes([call |-> "", run |-> "", data_type |-> "", rows |-> 0,
                      x |-> "", y |-> ""])

\* Mutant: the scatter draws its axes without making them pyplot's current axes.
DfPlotScatterNotCurrent ==
    /\ At("scatter")
    /\ IF ~df.bound
       THEN Raise("NameError", "")
       ELSE \E ok \in BOOLEAN, e \in LibraryErrors :
               IF ok
               THEN /\ figs' = Append(figs,
                          NewAxes(PlotData("scatter", df.run, df.data_type, df.rows)))
                    /\ gca' = gca
                    /\ Return("ok", "")
                    /\ UNCHANGED <<ipython, installed, modules, st, run_id, df, out>>
               ELSE Raise(e, "")

\* df.plot.scatter('cs1', 'cs2'): a new figure, which becomes the current one.
DfPlotScatter ==
    /\ At("scatter")
    /\ IF ~df.bound
       THEN Raise("NameError", "")
       ELSE \E ok \in BOOLEAN, e \in LibraryErrors :
               IF ok
               THEN /\ figs' = Append(figs,
                          NewAxes(PlotData("scatter", df.run, df.data_type, df.rows)))
                    /\ gca' = Len(figs) + 1
                    /\ Return("ok", "")
                    /\ UNCHANGED <<ipython, installed, modules, st, run_id, df, out>>
               ELSE Raise(e, "")

\* pyplot's gca(): the current axes, created first when there is none.
FigsWithCurrent == IF gca = 0 THEN Append(figs, EmptyAxes) ELSE figs
CurrentAxes == IF gca = 0 THEN Len(figs) + 1 ELSE gca

SetXscale(ax, scale) == [ax EXCEPT !.xscale = scale]
SetYscale(ax, scale) == [ax EXCEPT !.yscale = scale]

\* A limit passed as None is left as it is.
SetXlim(ax, left, right) ==
    [ax EXCEPT !.xleft = IF left.set THEN left ELSE @,
               !.xright = IF right.set THEN right ELSE @]

\* A plt.<call>(...) of the script: it names no axes and acts on the current one.
OnCurrentAxes(changed) ==
    IF "plt" \notin modules
    THEN Raise("NameError", "")
    ELSE \E ok \in BOOLEAN, e \in LibraryErrors :
            IF ok
            THEN /\ figs' = [FigsWithCurrent EXCEPT ![CurrentAxes] = changed]
                 /\ gca' = CurrentAxes
                 /\ Return("ok", "")
                 /\ UNCHANGED <<ipython, installed, modules, st, run_id, df, out>>
            ELSE Raise(e, "")

\* plt.xscale('log')
PltXscale ==
    /\ At("xscale")
    /\ OnCurrentAxes(SetXscale(FigsWithCurrent[CurrentAxes], "log"))

\* Mutant: the two arguments of xlim are swapped.
PltXlimSwapped ==
    /\ At("xlim")
    /\ OnCurrentAxes(SetXlim(FigsWithCurrent[CurrentAxes], None, Some(XlimLeft)))

\* plt.xlim(1, None)
PltXlim ==
    /\ At("xlim")
    /\ OnCurrentAxes(SetXlim(FigsWithCurrent[CurrentAxes], Some(XlimLeft), None))

\* plt.yscale('log')
PltYscale ==
    /\ At("yscale")
    /\ OnCurrentAxes(SetYscale(FigsWithCurrent[CurrentAxes], "log"))

----------------------------------------------------------------------------
(* Line 149: st.event_scatter(run_id) *)

\* The library retrieves the run's events itself and draws its own figure;
\* the rows it got and the scales it chose are the library's.
EventScatter ==
    /\ At("event_scatter")
    /\ IF st = Unbound \/ run_id = Unbound
       THEN Raise("NameError", "")
       ELSE \E ok \in BOOLEAN, e \in LibraryErrors, n \in 0..MaxRows,
               sc \in {"linear", "log"} :
               IF ok
               THEN /\ figs' = Append(figs,
                          [NewAxes(PlotData("event_scatter", run_id, DataTypeLiteral, n))
                              EXCEPT !.xscale = sc, !.yscale = sc])
                    /\ gca' = Len(figs) + 1
                    /\ Return("ok", run_id)
                    /\ UNCHANGED <<ipython, installed, modules, st, run_id, df, out>>
               ELSE Raise(e, run_id)

----------------------------------------------------------------------------
(* The session: the statements in file order *)

Next ==
    \/ Pip1
    \/ Pip2
    \/ ImportStraxen
    \/ ImportStrax
    \/ ImportPandas
    \/ Context
    \/ SearchField
    \/ DataInfoCA
    \/ DataInfoEI
    \/ SelectRuns
    \/ RunId
    \/ GetDf
    \/ PrintDf
    \/ ImportPlt
    \/ DfPlotScatter
    \/ PltXscale
    \/ PltXlim
    \/ PltYscale
    \/ EventScatter

Spec == Init /\ [][Next]_vars

----------------------------------------------------------------------------
(* Reading the history *)

LogIndex == 1..Len(log)

Succeeded(step) == \E i \in LogIndex : log[i].step = step /\ log[i].outcome = "ok"

\* Every attempt of b comes after a successful a.
Before(a, b) ==
    \A j \in LogIndex :
        log[j].step = b =>
            \E i \in 1..(j - 1) : log[i].step = a /\ log[i].outcome = "ok"

Discovery == {"search_field", "data_info_ca", "data_info_ei", "select_runs"}
AxisSteps == {"xscale", "xlim", "yscale"}
PipSteps == {"pip1", "pip2"}
UsesContext == Discovery \cup {"get_df", "event_scatter"}
UsesRun == {"get_df", "event_scatter"}
UsesTable == {"print_df", "scatter"}

\* The axes a statement is handed in its arguments: no call of the script
\* passes a figure or an axes object.
ExplicitAxes(step) == {}

\* The axes that existed before a step and differ after it.
ChangedAxes == {i \in 1..Len(figs) : figs'[i] # figs[i]}

ScatterAxes == {i \in 1..Len(figs) : figs[i].data.call = "scatter"}

----------------------------------------------------------------------------
(* C2 *)

\* C2: a statement that raises ends the session at that statement: the
\* exception recorded is the one raised, the failed statement is the last one
\* attempted, it was attempted once, and no statement runs after it.
C2_FailureEndsSession ==
    /\ \A i \in LogIndex : log[i].outcome = "raised" => i = Len(log)
    /\ \A i, j \in LogIndex : log[i].step = log[j].step => i = j
    /\ error.raised <=> (Len(log) > 0 /\ log[Len(log)].outcome = "raised")
    /\ error.raised =>
          /\ error.step = log[Len(log)].step
          /\ error.exc = log[Len(log)].exc
          /\ pc = error.step

\* get_df raised after every earlier statement had returned.
C2_Witness ==
    /\ error.raised
    /\ error.step = "get_df"
    /\ error.exc = "DataNotAvailable"
    /\ Len(log) = 12
    /\ df = NoTable

----------------------------------------------------------------------------
(* C3 *)

----------------------------------------------------------------------------
(* C6 *)

\* C6: once the last of the plotting statements (yscale) has returned, the
\* axes the scatter call drew cs1 against cs2 on have a log x scale, a log y
\* scale, the x lower limit set to 1 and the x upper limit not set.
C6_ScatterAxesSettings ==
    Succeeded("yscale") =>
        /\ ScatterAxes # {}
        /\ \A i \in ScatterAxes :
              /\ figs[i].data.x = "cs1"
              /\ figs[i].data.y = "cs2"
              /\ figs[i].xscale = "log"
              /\ figs[i].yscale = "log"
              /\ figs[i].xleft = [set |-> TRUE, val |-> 1]
              /\ ~figs[i].xright.set

\* The plotting statements are done and the script is about to call event_scatter.
C6_Witness ==
    /\ pc = "event_scatter"
    /\ ~error.raised
    /\ Succeeded("yscale")
    /\ Len(figs) = 1
    /\ figs[1].xleft.set

----------------------------------------------------------------------------
(* C8 *)

\* C8 as stated: no statement changes a plot it is not handed as an
\* argument; no statement of the script is handed one.
C8_Original == [][ChangedAxes \subseteq ExplicitAxes(pc)]_vars

\* C8 amended: only the three pyplot axis calls change an existing plot, and
\* the plot they change is the one pyplot holds as current, which is the
\* axes the earlier scatter call created.
C8_AxisCallsUseCurrentAxes ==
    [][ChangedAxes # {} =>
            /\ pc \in AxisSteps
            /\ ChangedAxes = {gca}
            /\ figs[gca].data.call = "scatter"]_vars

\* xlim has acted on the current axes.
C8_Witness ==
    /\ Succeeded("xlim")
    /\ gca = 1
    /\ figs[gca].data.call = "scatter"
    /\ figs[gca].xscale = "log"
    /\ figs[gca].xleft.set

----------------------------------------------------------------------------
(* C9 *)

\* C9 as stated: no step of the run changes what is installed.
C9_Original == [][installed' = installed]_vars

\* C9 amended: only the two pip steps change what is installed; they only
\* add packages, a pip step that succeeds leaves strax and straxen installed,
\* and every later statement leaves the installed packages as they are.
C9_OnlyPipInstalls ==
    [][ /\ installed' # installed => pc \in PipSteps
        /\ installed.site \subseteq installed'.site
        /\ installed.user \subseteq installed'.user
        /\ (pc = "pip1" /\ pc' = "pip2" /\ log'[Len(log')].outcome = "ok") =>
               {"strax", "straxen"} \subseteq installed'.site
        /\ (pc = "pip2" /\ pc' = "import_straxen" /\ log'[Len(log')].outcome = "ok") =>
               {"strax", "straxen"} \subseteq installed'.user ]_vars

\* Both pip steps succeeded and installed exactly the named packages.
C9_Witness ==
    /\ pc = "import_straxen"
    /\ Len(log) = 2
    /\ log[1].outcome = "ok"
    /\ log[2].outcome = "ok"
    /\ installed.site = {"strax", "straxen"}
    /\ installed.user = {"strax", "straxen"}

----------------------------------------------------------------------------
(* C10 *)

C10_Order ==
    /\ \A i, j \in LogIndex : i < j => IndexOf(log[i].step) < IndexOf(log[j].step)
    /\ \A b \in UsesContext : Before("context", b)
    /\ \A b \in UsesRun : Before("run_id", b)
    /\ \A i \in LogIndex : log[i].step \in UsesRun => log[i].run = "180215_1029"
    /\ \A b \in UsesTable : Before("get_df", b)
    /\ \A b \in AxisSteps : Before("scatter", b)
    /\ \A i \in ScatterAxes :
          df.bound /\ figs[i].data.run = df.run /\ figs[i].data.rows = df.rows

\* C10: the statements run one at a time in file order, each at most once;
\* the context exists before any call on it, run_id is assigned before
\* get_df and event_scatter and both are passed the same value, the table
\* exists before it is printed or plotted, the axis calls come after the
\* scatter; and st, run_id and df, once bound, are never changed.
C10_SequentialChain ==
    /\ []C10_Order
    /\ [][ /\ st # Unbound => st' = st
           /\ run_id # Unbound => run_id' = run_id
           /\ df.bound => df' = df ]_vars

\* The whole script ran to its end.
C10_Witness ==
    /\ pc = "done"
    /\ ~error.raised
    /\ Len(log) = 19
    /\ Len(figs) = 2

====
